---- MODULE Spec2Model ----
(***************************************************************************)
(* Risk-classification engine of the tea-estate monitoring backend:        *)
(*   services/tomorrowio_service.py  calculate_blister_blight_risk,        *)
(*                                   get_weather_risk (Tomorrow.io feed)   *)
(*   services/weather_service.py     the same two functions for the        *)
(*                                   Meteosource feed                      *)
(*   services/alert_service.py       get_active_alerts                     *)
(*                                   map_event_type, map_severity,         *)
(*                                   generate_recommendations,             *)
(*                                   calculate_landslide_risk              *)
(*                                                                         *)
(* Numbers (temperature, humidity) are held in hundredths of a unit, so    *)
(* that 24.96 is 2496; a JSON field is a record [k, v] whose kind k tells  *)
(* a number from an absent key, a null and a non-numeric string.           *)
(***************************************************************************)
EXTENDS Integers, Sequences, FiniteSets, TLC

VARIABLES
    provider,          \* which module is running: "tomorrowio" or "meteosource"
    caller,            \* "direct" (calculate_blister_blight_risk called as such) or "get_weather_risk"
    response,          \* what fetch_forecast does for get_weather_risk
    daily_data,        \* argument of calculate_blister_blight_risk
    idx,               \* number of entries of daily_data[:7] the loop has consumed
    current_streak,
    max_streak,
    streak_start,
    streak_end,
    forecast_summary,
    pc,                \* position: "fetch", "scan", "except_http", "except", "done"
    result,            \* the value returned, or the exception raised, once pc = "done"
    events_data,       \* get_active_alerts: what fetch_tomorrowio_events does
    flood_data,        \* get_active_alerts: what fetch_flood_risk does
    alerts,            \* get_active_alerts: the list being built
    apc,               \* get_active_alerts: "idle", "events", "flood", "done"
    call,              \* a call of one of alert_service's pure functions: its name and arguments
    ret                \* what that call returned

riskVars == <<provider, caller, response, daily_data, idx, current_streak, max_streak,
              streak_start, streak_end, forecast_summary, pc, result>>

alertVars == <<events_data, flood_data, alerts, apc>>

callVars == <<call, ret>>

vars == <<riskVars, alertVars, callVars>>

----------------------------------------------------------------------------
(* Bounds of the model *)

\* longest observation sequence over the two plain days (risk day, mild day)
MaxLen == 8
\* longest observation sequence over every shape of record
MaxShapeLen == 3
\* longest flood-risk series over the three plain entries (index 60, 72, 90)
MaxFloodLen == 6
\* longest flood-risk series over every shape of entry
MaxFloodShapeLen == 2
\* most events in the event feed
MaxEvents == 2

----------------------------------------------------------------------------
(* Program constants *)

ANALYZE_DAYS == 7
SUMMARY_DAYS == 3
RISK_HUMIDITY == 90
RISK_TEMPERATURE == 25
HIGH_STREAK == 3
MODERATE_STREAK == 2
DEFAULT_TEMPERATURE == 30
DEFAULT_HUMIDITY == 50
DEFAULT_WEATHER_CODE == 1000
FLOOD_DAYS == 5
FLOOD_RISK_INDEX == 70
FLOOD_WARNING_INDEX == 85
DEFAULT_FLOOD_INDEX == 0
EVENT_RADIUS == 100
FLOOD_RADIUS == 50

Hundredths(x) == x * 100

Min(a, b) == IF a < b THEN a ELSE b

----------------------------------------------------------------------------
(* JSON values *)

Num(x) == [k |-> "num", v |-> x]      \* a number, in hundredths
Absent == [k |-> "missing", v |-> 0]  \* the key is not in the dict
Null == [k |-> "null", v |-> 0]       \* the key is there with value null (None)
Text == [k |-> "str", v |-> 0]        \* the key is there with a non-numeric string

\* dict.get(key, default)
Get(field, default) == IF field.k = "missing" THEN default ELSE field

(* Date strings.  "ts" is an ISO timestamp of calendar day v (date, then the
   time of day), "date" the 10-character date of day v alone, "empty" the
   string '', "unknown" the string 'Unknown'. *)
Timestamp(d) == [k |-> "ts", v |-> d]
Date(d) == [k |-> "date", v |-> d]
EmptyStr == [k |-> "empty", v |-> 0]
Unknown == [k |-> "unknown", v |-> 0]

\* s[:10] of a string s
Slice10(s) == IF s.k = "ts" THEN Date(s.v) ELSE s

\* truth value of a Python object used as a condition
Truthy(s) == s.k \notin {"null", "empty"}

\* round(x, 1) on a number in hundredths (ties to even)
Round1(x) ==
    LET lo == (x \div 10) * 10
        r == x - lo
    IN  IF r < 5 THEN lo
        ELSE IF r > 5 THEN lo + 10
        ELSE IF (lo \div 10) % 2 = 0 THEN lo ELSE lo + 10

----------------------------------------------------------------------------
(* Inputs: daily observations in the shape each provider delivers them *)

Obs(t, h, c) == [date |-> "ok", values |-> "dict", temperature |-> t, humidity |-> h, cond |-> c]

RiskDay == Obs(Num(2000), Num(9500), "rain")        \* 20.00 C, 95.00 %
MildDay == Obs(Num(2600), Num(8800), "cloudy")      \* 26.00 C, 88.00 %: meets only the documented 85 % / 27 C
HumidityEdge == Obs(Num(2000), Num(9000), "clear")  \* humidity exactly 90
TemperatureEdge == Obs(Num(2500), Num(9500), "thunder")  \* temperature exactly 25
NearEdge == Obs(Num(2496), Num(9004), "odd")        \* 24.96 C, 90.04 %: inside both thresholds by less than 0.05
NoTemperature == Obs(Absent, Num(9500), "rain")
NoHumidity == Obs(Num(2000), Absent, "none")
NoValues == [date |-> "ok", values |-> "missing", temperature |-> Absent, humidity |-> Absent, cond |-> "none"]
NullTemperature == Obs(Null, Num(9500), "rain")
NullTemperatureMild == Obs(Null, Num(8800), "cloudy")
TextHumidity == Obs(Num(2000), Text, "rain")
NullValues == [date |-> "ok", values |-> "null", temperature |-> Absent, humidity |-> Absent, cond |-> "none"]
RiskDayNullDate == [RiskDay EXCEPT !.date = "null"]
RiskDayNoDate == [RiskDay EXCEPT !.date = "missing"]

PlainDays == {RiskDay, MildDay}
MissingFieldDays == {NoTemperature, NoHumidity, NoValues, RiskDayNoDate}
GarbledDays == {NullTemperature, NullTemperatureMild, TextHumidity, NullValues, RiskDayNullDate}
ShapedDays == PlainDays \cup {HumidityEdge, TemperatureEdge, NearEdge}
                  \cup MissingFieldDays \cup GarbledDays

\* the provider's weather condition of an observation: Tomorrow.io sends an
\* integer weatherCode, Meteosource a summary text (held as the set of the
\* keywords of get_weather_icon that occur in it, lower-cased)
WeatherCodeOf(c) ==
    CASE c = "rain" -> Num(4001)
      [] c = "cloudy" -> Num(1001)
      [] c = "clear" -> Num(1000)
      [] c = "thunder" -> Num(8000)
      [] c = "odd" -> Num(9999)
      [] OTHER -> Absent

SummaryOf(c) ==
    CASE c = "rain" -> [k |-> "str", words |-> {"rain", "shower"}]
      [] c = "cloudy" -> [k |-> "str", words |-> {"cloud", "sun"}]
      [] c = "clear" -> [k |-> "str", words |-> {"clear"}]
      [] c = "thunder" -> [k |-> "str", words |-> {"thunder", "storm"}]
      [] c = "odd" -> [k |-> "str", words |-> {"fog"}]
      [] OTHER -> [k |-> "missing", words |-> {}]

\* the i-th record of a forecast, as the provider p sends it.  Field names are
\* Tomorrow.io's; for Meteosource startTime is "day" and values is "all_day".
Interval(p, o, i) ==
    [startTime |-> CASE o.date = "missing" -> Absent
                     [] o.date = "null" -> Null
                     [] OTHER -> IF p = "tomorrowio" THEN Timestamp(i) ELSE Date(i),
     values |-> o.values,
     temperature |-> o.temperature,
     humidity |-> o.humidity,
     weatherCode |-> WeatherCodeOf(o.cond),
     summary |-> SummaryOf(o.cond)]

SeqsUpTo(S, n) == UNION {[1..m -> S] : m \in 0..n}

Forecast(p, w) == [i \in 1..Len(w) |-> Interval(p, w[i], i)]

Inputs(p) == {Forecast(p, w) : w \in SeqsUpTo(PlainDays, MaxLen) \cup SeqsUpTo(ShapedDays, MaxShapeLen)}

Providers == {"tomorrowio", "meteosource"}

----------------------------------------------------------------------------
(* Weather icons *)

\* tomorrowio_service.get_weather_icon: code_map.get(weather_code, default)
get_weather_icon(weather_code) ==
    IF weather_code.k # "num" THEN "partly"
    ELSE CASE weather_code.v = 1000 -> "sun"
           [] weather_code.v = 1100 -> "partly"
           [] weather_code.v = 1101 -> "partcloud"
           [] weather_code.v \in {1102, 1001} -> "cloud"
           [] weather_code.v \in {2000, 2100} -> "fog"
           [] weather_code.v \in {4000, 4001, 4200, 4201} -> "rain"
           [] weather_code.v \in {5000, 5001, 5100, 5101} -> "snow"
           [] weather_code.v \in {6000, 6001, 6200, 6201} -> "sleet"
           [] weather_code.v \in {7000, 7101, 7102} -> "ice"
           [] weather_code.v = 8000 -> "storm"
           [] OTHER -> "partly"

\* weather_service.get_weather_icon: the first keyword family found in the
\* lower-cased summary decides
get_summary_icon(summary) ==
    LET summary_lower == IF summary.k = "str" THEN summary.words ELSE {}
    IN  IF summary_lower \cap {"rain", "shower"} # {} THEN "rain"
        ELSE IF "cloud" \in summary_lower THEN "cloud"
        ELSE IF summary_lower \cap {"sun", "clear"} # {} THEN "sun"
        ELSE IF summary_lower \cap {"storm", "thunder"} # {} THEN "storm"
        ELSE IF summary_lower \cap {"fog", "mist"} # {} THEN "fog"
        ELSE "partly"

----------------------------------------------------------------------------
(* calculate_blister_blight_risk: one pass of the loop body *)

Raised(e) == [kind |-> "raise", exc |-> e]

\* faulty variant: the default temperature is a cool one
TemperatureOf_CoolDefault(interval) ==
    IF interval.values = "missing" THEN Num(2000)
    ELSE Get(interval.temperature, Num(2000))

\* values.get('temperature', 30) and values.get('humidity', 50); a missing
\* 'values' key gives the empty dict, so both defaults apply
TemperatureOf(interval) ==
    IF interval.values = "missing" THEN Num(Hundredths(DEFAULT_TEMPERATURE))
    ELSE Get(interval.temperature, Num(Hundredths(DEFAULT_TEMPERATURE)))

HumidityOf(interval) ==
    IF interval.values = "missing" THEN Num(Hundredths(DEFAULT_HUMIDITY))
    ELSE Get(interval.humidity, Num(Hundredths(DEFAULT_HUMIDITY)))

\* interval.get('startTime', '') / day.get("day", "Unknown")
StartTimeOf(p, interval) ==
    Get(interval.startTime, IF p = "tomorrowio" THEN EmptyStr ELSE Unknown)

\* humidity > 90 and temperature < 25: the comparison of a non-number with a
\* number raises TypeError; the right operand is evaluated only when the left
\* one is true
RiskTestRaises(humidity, temperature) ==
    \/ humidity.k # "num"
    \/ humidity.v > Hundredths(RISK_HUMIDITY) /\ temperature.k # "num"

\* faulty variant: the thresholds are inclusive
IsRiskDay_Inclusive(humidity, temperature) ==
    /\ humidity.k = "num" /\ humidity.v >= Hundredths(RISK_HUMIDITY)
    /\ temperature.k = "num" /\ temperature.v <= Hundredths(RISK_TEMPERATURE)

IsRiskDay(humidity, temperature) ==
    /\ humidity.k = "num" /\ humidity.v > Hundredths(RISK_HUMIDITY)
    /\ temperature.k = "num" /\ temperature.v < Hundredths(RISK_TEMPERATURE)

\* the exception the loop body raises on this interval, or "none"
BodyException(p, interval) ==
    LET temperature == TemperatureOf(interval)
        humidity == HumidityOf(interval)
    IN  IF interval.values = "null" THEN "AttributeError"   \* None.get
        ELSE IF RiskTestRaises(humidity, temperature) THEN "TypeError"
        ELSE IF p = "tomorrowio" /\ temperature.k # "num" THEN "TypeError"   \* round(None, 1)
        ELSE "none"

\* faulty variant: the Tomorrow.io entry takes its flag from the rounded readings
SummaryEntry_RoundedFlag(p, interval) ==
    LET start_time == StartTimeOf(p, interval)
        temperature == TemperatureOf(interval)
        humidity == HumidityOf(interval)
    IN  IF p = "tomorrowio"
        THEN [date |-> IF Truthy(start_time) THEN Slice10(start_time) ELSE Unknown,
              temperature |-> Num(Round1(temperature.v)),
              humidity |-> Num(Round1(humidity.v)),
              weather_icon |-> get_weather_icon(
                  IF interval.values = "missing" THEN Num(DEFAULT_WEATHER_CODE)
                  ELSE Get(interval.weatherCode, Num(DEFAULT_WEATHER_CODE))),
              is_risk_day |-> IsRiskDay(Num(Round1(humidity.v)), Num(Round1(temperature.v)))]
        ELSE [date |-> start_time,
              temperature |-> temperature,
              humidity |-> humidity,
              weather_icon |-> get_summary_icon(interval.summary),
              is_risk_day |-> IsRiskDay(humidity, temperature)]

\* the entry appended to forecast_summary
SummaryEntry(p, interval) ==
    LET start_time == StartTimeOf(p, interval)
        temperature == TemperatureOf(interval)
        humidity == HumidityOf(interval)
    IN  IF p = "tomorrowio"
        THEN [date |-> IF Truthy(start_time) THEN Slice10(start_time) ELSE Unknown,
              temperature |-> Num(Round1(temperature.v)),
              humidity |-> Num(Round1(humidity.v)),
              weather_icon |-> get_weather_icon(
                  IF interval.values = "missing" THEN Num(DEFAULT_WEATHER_CODE)
                  ELSE Get(interval.weatherCode, Num(DEFAULT_WEATHER_CODE))),
              is_risk_day |-> IsRiskDay(humidity, temperature)]
        ELSE [date |-> start_time,
              temperature |-> temperature,
              humidity |-> humidity,
              weather_icon |-> get_summary_icon(interval.summary),
              is_risk_day |-> IsRiskDay(humidity, temperature)]

\* faulty variant: max_streak follows the current run instead of the longest one
ScanStep_LastRun(p, s, interval) ==
    LET start_time == StartTimeOf(p, interval)
        is_risk_day == IsRiskDay(HumidityOf(interval), TemperatureOf(interval))
        streak == s.current_streak + 1
    IN  [current_streak |-> IF is_risk_day THEN streak ELSE 0,
         max_streak |-> IF is_risk_day THEN streak ELSE s.max_streak,
         streak_start |-> IF is_risk_day /\ streak = 1 THEN start_time ELSE s.streak_start,
         streak_end |-> IF is_risk_day THEN start_time ELSE s.streak_end,
         forecast_summary |-> Append(s.forecast_summary, SummaryEntry(p, interval))]

\* the loop variables after the body has run on interval (no exception)
ScanStep(p, s, interval) ==
    LET start_time == StartTimeOf(p, interval)
        is_risk_day == IsRiskDay(HumidityOf(interval), TemperatureOf(interval))
        streak == s.current_streak + 1
    IN  [current_streak |-> IF is_risk_day THEN streak ELSE 0,
         max_streak |-> IF is_risk_day /\ streak > s.max_streak THEN streak ELSE s.max_streak,
         streak_start |-> IF is_risk_day /\ streak = 1 THEN start_time ELSE s.streak_start,
         streak_end |-> IF is_risk_day THEN start_time ELSE s.streak_end,
         forecast_summary |-> Append(s.forecast_summary, SummaryEntry(p, interval))]

ScanInit ==
    [current_streak |-> 0, max_streak |-> 0, streak_start |-> Null, streak_end |-> Null,
     forecast_summary |-> <<>>]

----------------------------------------------------------------------------
(* calculate_blister_blight_risk: after the loop *)

NoDate == [k |-> "none", v |-> 0]

\* the rationale: which template was filled in, and with what
Details(text, from, to, days) == [text |-> text, from |-> from, to |-> to, days |-> days]

RiskAssessment(risk_level, details, consecutive_risk_days, summary) ==
    [kind |-> "return", risk_level |-> risk_level, details |-> details,
     consecutive_risk_days |-> consecutive_risk_days, forecast_summary |-> summary]

Take(seq, n) == SubSeq(seq, 1, Min(Len(seq), n))

\* faulty variant: HIGH needs more than 3 days
RiskLevel_Late(streak) ==
    IF streak > HIGH_STREAK THEN "HIGH"
    ELSE IF streak >= MODERATE_STREAK THEN "MODERATE"
    ELSE "LOW"

RiskLevel(streak) ==
    IF streak >= HIGH_STREAK THEN "HIGH"
    ELSE IF streak >= MODERATE_STREAK THEN "MODERATE"
    ELSE "LOW"

\* f"{streak_start[:10]}" (Tomorrow.io) subscripts None when the date was null;
\* f"{streak_start_date}" (Meteosource) formats it
DetailsException(p, s) ==
    IF /\ p = "tomorrowio"
       /\ s.max_streak >= MODERATE_STREAK
       /\ "null" \in {s.streak_start.k, s.streak_end.k}
    THEN "TypeError"
    ELSE "none"

\* faulty variant: the summary is returned whole
Determine_WholeSummary(p, s) ==
    LET risk_level == RiskLevel(s.max_streak)
        from == IF p = "tomorrowio" THEN Slice10(s.streak_start) ELSE s.streak_start
        to == IF p = "tomorrowio" THEN Slice10(s.streak_end) ELSE s.streak_end
        details ==
            CASE risk_level = "HIGH" -> Details(<<p, "HIGH">>, from, to, s.max_streak)
              [] risk_level = "MODERATE" ->
                    Details(<<p, "MODERATE">>, from, to, IF p = "tomorrowio" THEN s.max_streak ELSE 0)
              [] OTHER -> Details(<<p, "LOW">>, NoDate, NoDate, 0)
    IN  RiskAssessment(risk_level, details, s.max_streak, s.forecast_summary)

Determine(p, s) ==
    LET risk_level == RiskLevel(s.max_streak)
        from == IF p = "tomorrowio" THEN Slice10(s.streak_start) ELSE s.streak_start
        to == IF p = "tomorrowio" THEN Slice10(s.streak_end) ELSE s.streak_end
        details ==
            CASE risk_level = "HIGH" -> Details(<<p, "HIGH">>, from, to, s.max_streak)
              [] risk_level = "MODERATE" ->
                    Details(<<p, "MODERATE">>, from, to, IF p = "tomorrowio" THEN s.max_streak ELSE 0)
              [] OTHER -> Details(<<p, "LOW">>, NoDate, NoDate, 0)
    IN  RiskAssessment(risk_level, details, s.max_streak, Take(s.forecast_summary, SUMMARY_DAYS))

\* the whole function, as one value: the verdict, or the exception it raises
RECURSIVE ScanFrom(_, _, _, _)
ScanFrom(p, s, data, i) ==
    IF i > Len(data)
    THEN IF DetailsException(p, s) # "none" THEN Raised(DetailsException(p, s)) ELSE Determine(p, s)
    ELSE IF BodyException(p, data[i]) # "none" THEN Raised(BodyException(p, data[i]))
    ELSE ScanFrom(p, ScanStep(p, s, data[i]), data, i + 1)

calculate_blister_blight_risk(p, data) == ScanFrom(p, ScanInit, Take(data, ANALYZE_DAYS), 1)

----------------------------------------------------------------------------
(* get_weather_risk *)

NoResponse == [fetch |-> "none", data |-> "none", timelines |-> "none",
               intervals |-> [k |-> "none", v |-> <<>>]]

NoResult == [kind |-> "none"]
NoCall == [fn |-> "none", args |-> <<>>]

Response(f, d, t, ik, iv) == [fetch |-> f, data |-> d, timelines |-> t, intervals |-> [k |-> ik, v |-> iv]]

(* What fetch_forecast can do: raise an httpx.HTTPError (status, timeout),
   raise something else (a body that is not JSON), or return a JSON object
   in which 'data' ("daily" for Meteosource), 'timelines' (Tomorrow.io only)
   and 'intervals' ("data" for Meteosource) are there, absent or null. *)
Responses(p) ==
    {Response(f, "dict", "list", "missing", <<>>) : f \in {"HTTPError", "ValueError"}}
    \cup {Response("ok", d, "list", "missing", <<>>) : d \in {"missing", "null"}}
    \cup {Response("ok", "dict", t, "missing", <<>>) : t \in {"missing", "empty", "null"}}
    \cup {Response("ok", "dict", "list", ik, <<>>) : ik \in {"missing", "null"}}
    \cup {Response("ok", "dict", "list", "list", v) : v \in Inputs(p)}

Fallback(text) ==
    RiskAssessment("LOW", Details(text, NoDate, NoDate, 0), 0, <<>>)

\* what the body of the try block does up to the call of the classifier:
\* "raise" with an exception, "return" with a verdict, or "call"
TryBlock(p, r) ==
    IF r.fetch # "ok" THEN [do |-> "raise", exc |-> r.fetch]
    ELSE IF r.data = "null" THEN [do |-> "raise", exc |-> "AttributeError"]
    ELSE IF p = "tomorrowio" /\ (r.data = "missing" \/ r.timelines # "list")
    THEN [do |-> "return", text |-> "Unable to fetch forecast data"]
    ELSE IF r.data = "missing" \/ r.intervals.k # "list" \/ r.intervals.v = <<>>
    THEN [do |-> "return",
          text |-> IF p = "tomorrowio" THEN "No forecast data available"
                   ELSE "Unable to fetch forecast data"]
    ELSE [do |-> "call"]

----------------------------------------------------------------------------
(* The state machine: a call of calculate_blister_blight_risk, made directly
   or by get_weather_risk *)

ScanVars == [current_streak |-> current_streak, max_streak |-> max_streak,
             streak_start |-> streak_start, streak_end |-> streak_end,
             forecast_summary |-> forecast_summary]

\* faulty variant: the loop runs over the whole of daily_data
LoopDone_NoSlice == idx = Len(daily_data)

LoopDone == idx = Min(Len(daily_data), ANALYZE_DAYS)

Init ==
    /\ provider \in Providers
    /\ caller \in {"direct", "get_weather_risk"}
    /\ IF caller = "direct"
       THEN /\ response = NoResponse
            /\ daily_data \in Inputs(provider)
            /\ pc = "scan"
       ELSE /\ response \in Responses(provider)
            /\ daily_data = <<>>
            /\ pc = "fetch"
    /\ idx = 0
    /\ current_streak = ScanInit.current_streak
    /\ max_streak = ScanInit.max_streak
    /\ streak_start = ScanInit.streak_start
    /\ streak_end = ScanInit.streak_end
    /\ forecast_summary = ScanInit.forecast_summary
    /\ result = NoResult
    /\ events_data = NoResponse
    /\ flood_data = NoResponse
    /\ alerts = <<>>
    /\ apc = "idle"
    /\ call = NoCall
    /\ ret = NoResult

\* faulty variant: no handler catches the exception
Raise_Uncaught(e) ==
    /\ result' = Raised(e)
    /\ pc' = "done"

\* an exception leaves calculate_blister_blight_risk: to the caller of a
\* direct call, to the handlers of get_weather_risk otherwise
Raise(e) ==
    /\ result' = Raised(e)
    /\ pc' = IF caller = "direct" THEN "done"
             ELSE IF e = "HTTPError" THEN "except_http"
             ELSE "except"

\* get_weather_risk, from its start to the call of the classifier
FetchForecast ==
    /\ pc = "fetch"
    /\ LET try == TryBlock(provider, response)
       IN  CASE try.do = "raise" -> Raise(try.exc) /\ UNCHANGED daily_data
             [] try.do = "return" ->
                   /\ result' = Fallback(try.text)
                   /\ pc' = "done"
                   /\ UNCHANGED daily_data
             [] OTHER ->
                   /\ daily_data' = response.intervals.v
                   /\ pc' = "scan"
                   /\ UNCHANGED result
    /\ UNCHANGED <<alertVars, callVars>>
    /\ UNCHANGED <<provider, caller, response, idx, current_streak, max_streak,
                   streak_start, streak_end, forecast_summary>>

\* one pass of the loop over daily_data[:7]
ScanDay ==
    /\ pc = "scan"
    /\ ~LoopDone
    /\ LET interval == daily_data[idx + 1]
           e == BodyException(provider, interval)
           s == ScanStep(provider, ScanVars, interval)
       IN  IF e # "none"
           THEN /\ Raise(e)
                /\ UNCHANGED <<idx, current_streak, max_streak, streak_start, streak_end,
                               forecast_summary>>
           ELSE /\ idx' = idx + 1
                /\ current_streak' = s.current_streak
                /\ max_streak' = s.max_streak
                /\ streak_start' = s.streak_start
                /\ streak_end' = s.streak_end
                /\ forecast_summary' = s.forecast_summary
                /\ UNCHANGED <<pc, result>>
    /\ UNCHANGED <<alertVars, callVars>>
    /\ UNCHANGED <<provider, caller, response, daily_data>>

\* the code after the loop: the risk level, the rationale, the return
DetermineRisk ==
    /\ pc = "scan"
    /\ LoopDone
    /\ LET e == DetailsException(provider, ScanVars)
       IN  IF e # "none"
           THEN Raise(e)
           ELSE /\ result' = Determine(provider, ScanVars)
                /\ pc' = "done"
    /\ UNCHANGED <<alertVars, callVars>>
    /\ UNCHANGED <<provider, caller, response, daily_data, idx, current_streak, max_streak,
                   streak_start, streak_end, forecast_summary>>

\* except httpx.HTTPError as e
ExceptHTTPError ==
    /\ pc = "except_http"
    /\ result' = Fallback(<<"Weather service temporarily unavailable", result.exc>>)
    /\ pc' = "done"
    /\ UNCHANGED <<alertVars, callVars>>
    /\ UNCHANGED <<provider, caller, response, daily_data, idx, current_streak, max_streak,
                   streak_start, streak_end, forecast_summary>>

\* except Exception as e
ExceptException ==
    /\ pc = "except"
    /\ result' = Fallback(<<"Error analyzing weather data", result.exc>>)
    /\ pc' = "done"
    /\ UNCHANGED <<alertVars, callVars>>
    /\ UNCHANGED <<provider, caller, response, daily_data, idx, current_streak, max_streak,
                   streak_start, streak_end, forecast_summary>>

Next ==
    \/ FetchForecast
    \/ ScanDay
    \/ DetermineRisk
    \/ ExceptHTTPError
    \/ ExceptException

Spec == Init /\ [][Next]_vars

----------------------------------------------------------------------------
(* alert_service: mapping tables *)

Str(x) == [k |-> "str", s |-> x]
NoStr == [k |-> "missing", s |-> ""]
NullStr == [k |-> "null", s |-> ""]

\* the strings the mapping functions take are sequences of characters
LowerCase == <<"a", "b", "c", "d", "e", "f", "g", "h", "i", "j", "k", "l", "m",
               "n", "o", "p", "q", "r", "s", "t", "u", "v", "w", "x", "y", "z">>
UpperCase == <<"A", "B", "C", "D", "E", "F", "G", "H", "I", "J", "K", "L", "M",
               "N", "O", "P", "Q", "R", "S", "T", "U", "V", "W", "X", "Y", "Z">>

\* the lower-case letter of every upper-case letter
ToLower ==
    [c \in {UpperCase[n] : n \in 1..Len(UpperCase)} |->
        LowerCase[CHOOSE n \in 1..Len(UpperCase) : UpperCase[n] = c]]

LowerChar(c) == IF c \in DOMAIN ToLower THEN ToLower[c] ELSE c

\* faulty variant: the key is looked up as it came
Lower_AsIs(x) == x

\* str.lower()
Lower(x) == [i \in 1..Len(x) |-> LowerChar(x[i])]

map_event_type(tomorrow_insight) ==
    LET key == Lower(tomorrow_insight)
    IN  CASE key = <<"f", "l", "o", "o", "d">> -> "flood"
          [] key = <<"t", "r", "o", "p", "i", "c", "a", "l">> -> "cyclone"
          [] key = <<"w", "i", "n", "d">> -> "wind"
          [] key = <<"w", "i", "n", "t", "e", "r">> -> "temperature"
          [] key = <<"t", "e", "m", "p", "e", "r", "a", "t", "u", "r", "e">> -> "temperature"
          [] key = <<"t", "h", "u", "n", "d", "e", "r", "s", "t", "o", "r", "m">> -> "heavy_rain"
          [] key = <<"o", "t", "h", "e", "r">> -> "heavy_rain"
          [] OTHER -> "heavy_rain"

map_severity(tomorrow_severity) ==
    LET key == Lower(tomorrow_severity)
    IN  CASE key = <<"m", "i", "n", "o", "r">> -> "advisory"
          [] key = <<"m", "o", "d", "e", "r", "a", "t", "e">> -> "watch"
          [] key = <<"s", "e", "v", "e", "r", "e">> -> "warning"
          [] key = <<"e", "x", "t", "r", "e", "m", "e">> -> "critical"
          [] OTHER -> "advisory"

\* faulty variant: only critical takes the urgent list
HighSeverity_CriticalOnly(severity) == severity \in {"critical"}

\* severity in ['critical', 'warning']
HighSeverity(severity) == severity \in {"critical", "warning"}

generate_recommendations(alert_type, severity) ==
    CASE alert_type = "flood" ->
            IF HighSeverity(severity)
            THEN << "Move tea processing equipment to higher ground immediately",
                    "Clear all drainage channels and culverts",
                    "Harvest mature tea leaves if possible within next 6 hours",
                    "Prepare sandbags for estate buildings and storage",
                    "Evacuate workers from low-lying areas",
                    "Monitor river levels every hour" >>
            ELSE << "Check drainage systems are clear",
                    "Identify safe evacuation routes",
                    "Stock emergency supplies (fuel, food, medical)",
                    "Move valuable equipment to elevated storage" >>
      [] alert_type = "cyclone" ->
            IF HighSeverity(severity)
            THEN << "Secure all loose structures and equipment NOW",
                    "Emergency harvest of tea if within 12h of storm",
                    "Board up windows on estate buildings",
                    "Evacuate workers to designated safe zones",
                    "Stock 7 days of emergency supplies",
                    "Monitor official weather updates every 2 hours" >>
            ELSE << "Prepare emergency kits and supplies",
                    "Identify cyclone shelter locations",
                    "Secure outdoor equipment",
                    "Review evacuation procedures with staff" >>
      [] alert_type = "heavy_rain" ->
            << "Delay all field operations during heavy rain",
               "Protect workers from lightning (move indoors)",
               "Cover harvested tea leaves to prevent damage",
               "Check for waterlogging and ponding after storm",
               "Inspect tea bushes for physical damage" >>
      [] alert_type = "landslide" ->
            IF HighSeverity(severity)
            THEN << "EVACUATE workers from slope areas immediately",
                    "Stay away from hillside tea estates",
                    "Monitor for ground cracks, tilted trees, unusual sounds",
                    "Do not attempt to harvest on slopes during/after heavy rain",
                    "Contact local authorities for geological assessment" >>
            ELSE << "Monitor slope stability indicators",
                    "Avoid unnecessary access to steep areas",
                    "Report any ground movement to authorities" >>
      [] alert_type = "drought" ->
            << "Increase irrigation frequency immediately",
               "Apply mulch to retain soil moisture",
               "Monitor tea bush stress indicators (leaf curl, yellowing)",
               "Reduce plucking intensity to conserve plant energy",
               "Check irrigation system functionality daily" >>
      [] OTHER -> << "Monitor weather conditions closely and follow official advisories" >>

----------------------------------------------------------------------------
(* alert_service: calculate_landslide_risk *)

\* precipitation, soil moisture and slope are held in hundredths, as the
\* readings are: 0.8 is 80 and 200 mm is 20000

\* faulty variant: every band the rainfall is over adds its points
SustainedRainPoints_Cumulative(precipitation_3day) ==
    (IF precipitation_3day > Hundredths(200) THEN 40 ELSE 0)
    + (IF precipitation_3day > Hundredths(100) THEN 25 ELSE 0)
    + (IF precipitation_3day > Hundredths(50) THEN 10 ELSE 0)

\* heavy sustained rainfall
SustainedRainPoints(precipitation_3day) ==
    IF precipitation_3day > Hundredths(200) THEN 40
    ELSE IF precipitation_3day > Hundredths(100) THEN 25
    ELSE IF precipitation_3day > Hundredths(50) THEN 10
    ELSE 0

\* intense precipitation rate
IntensityPoints(precipitation_mm) ==
    IF precipitation_mm > Hundredths(50) THEN 30
    ELSE IF precipitation_mm > Hundredths(25) THEN 15
    ELSE 0

\* faulty variant: soil at exactly 0.8 counts as saturated
SaturatedSoilPoints_Inclusive(soil_moisture) ==
    IF soil_moisture >= 80 THEN 20
    ELSE IF soil_moisture > 60 THEN 10
    ELSE 0

\* saturated soil
SaturatedSoilPoints(soil_moisture) ==
    IF soil_moisture > 80 THEN 20
    ELSE IF soil_moisture > 60 THEN 10
    ELSE 0

\* steep slopes
SteepSlopePoints(slope_degrees) ==
    IF slope_degrees > Hundredths(30) THEN 10
    ELSE IF slope_degrees > Hundredths(20) THEN 5
    ELSE 0

\* classify severity
LandslideSeverity(risk_score) ==
    IF risk_score >= 70 THEN "critical"
    ELSE IF risk_score >= 50 THEN "warning"
    ELSE IF risk_score >= 30 THEN "watch"
    ELSE "advisory"

\* the tuple (severity, risk_score)
calculate_landslide_risk(precipitation_mm, precipitation_3day, soil_moisture, slope_degrees) ==
    LET risk_score == SustainedRainPoints(precipitation_3day) + IntensityPoints(precipitation_mm)
                      + SaturatedSoilPoints(soil_moisture) + SteepSlopePoints(slope_degrees)
    IN  <<LandslideSeverity(risk_score), risk_score>>

----------------------------------------------------------------------------
(* alert_service: the feeds *)

\* what datetime.now() can read during a call
Clock == {1, 2}

BadTime == [k |-> "bad", v |-> 0]    \* a string that is no ISO timestamp

\* an entry of the flood-risk series; the index is in whole units
FloodEntry(index, time) == [values |-> "dict", floodRiskIndex |-> index, time |-> time]

PlainFloodEntries == {FloodEntry(Num(60), "ok"), FloodEntry(Num(72), "ok"), FloodEntry(Num(90), "ok")}

ShapedFloodEntries ==
    PlainFloodEntries \cup
    { FloodEntry(Num(70), "ok"), FloodEntry(Num(85), "ok"), FloodEntry(Num(86), "ok"),
      FloodEntry(Absent, "ok"), FloodEntry(Null, "ok"),
      [values |-> "null", floodRiskIndex |-> Absent, time |-> "ok"],
      FloodEntry(Num(72), "missing"), FloodEntry(Num(90), "bad") }

\* the i-th interval of the series as Tomorrow.io sends it
FloodInterval(e, i) ==
    [startTime |-> CASE e.time = "missing" -> Absent
                     [] e.time = "bad" -> BadTime
                     [] OTHER -> Timestamp(i),
     values |-> e.values,
     floodRiskIndex |-> e.floodRiskIndex]

FloodSeries ==
    {[i \in 1..Len(w) |-> FloodInterval(w[i], i)] :
        w \in SeqsUpTo(PlainFloodEntries, MaxFloodLen) \cup SeqsUpTo(ShapedFloodEntries, MaxFloodShapeLen)}

\* what fetch_flood_risk can do (as for fetch_forecast)
FloodResponses ==
    {Response(f, "dict", "list", "missing", <<>>) : f \in {"HTTPError", "ValueError"}}
    \cup {Response("ok", d, "list", "missing", <<>>) : d \in {"missing", "null"}}
    \cup {Response("ok", "dict", t, "missing", <<>>) : t \in {"missing", "empty", "null"}}
    \cup {Response("ok", "dict", "list", ik, <<>>) : ik \in {"missing", "null"}}
    \cup {Response("ok", "dict", "list", "list", v) : v \in FloodSeries}

Event(id, insight, severity, title, description, location, start, end) ==
    [eventId |-> id, insight |-> insight, severity |-> severity, title |-> title,
     description |-> description, location |-> location, startTime |-> start, endTime |-> end]

FloodEvent ==
    Event(Str("evt-flood"),
          Str(<<"F", "L", "O", "O", "D">>),
          Str(<<"S", "e", "v", "e", "r", "e">>),
          Str("River flood"), Str("Mahaweli rising"),
          Str("Kandy"), Timestamp(1), Timestamp(3))
StormEvent ==
    Event(Str("evt-storm"),
          Str(<<"T", "r", "o", "p", "i", "c", "a", "l">>),
          Str(<<"e", "x", "t", "r", "e", "m", "e">>),
          Str("Cyclone"), Str("Landfall expected"),
          Str("Galle"), Timestamp(2), Absent)
\* nothing but an unknown insight: every optional field takes its default
BareEvent ==
    Event(NoStr,
          Str(<<"v", "o", "l", "c", "a", "n", "o">>),
          NoStr,
          NoStr, NoStr, NoStr, Absent, Absent)
BadStartEvent ==
    Event(Str("evt-wind"),
          Str(<<"w", "i", "n", "d">>),
          Str(<<"m", "i", "n", "o", "r">>),
          Str("Gale"), Str("Strong wind"),
          Str("Ella"), BadTime, Absent)
NullInsightEvent ==
    Event(Str("evt-null"),
          NullStr,
          Str(<<"m", "o", "d", "e", "r", "a", "t", "e">>),
          Str("Alert"), Str("Unclassified"),
          Str("Hatton"), Timestamp(1), Null)
BadEndEvent ==
    Event(Str("evt-heat"),
          Str(<<"t", "e", "m", "p", "e", "r", "a", "t", "u", "r", "e">>),
          Str(<<"M", "I", "N", "O", "R">>),
          Str("Heat"), Str("Hot afternoon"),
          Str("Badulla"), Timestamp(2), BadTime)

Events == {FloodEvent, StormEvent, BareEvent, BadStartEvent, BadEndEvent, NullInsightEvent}

\* what fetch_tomorrowio_events can do: raise, or return a JSON object in which
\* 'data' and 'events' are there, absent or null
EventResponses ==
    {Response(f, "dict", "none", "missing", <<>>) : f \in {"HTTPError", "ValueError"}}
    \cup {Response("ok", d, "none", "missing", <<>>) : d \in {"missing", "null"}}
    \cup {Response("ok", "dict", "none", ik, <<>>) : ik \in {"missing", "null"}}
    \cup {Response("ok", "dict", "none", "list", v) : v \in SeqsUpTo(Events, MaxEvents)}

----------------------------------------------------------------------------
(* get_active_alerts *)

DateTime(v) == [k |-> "datetime", v |-> v]
NowTime(t) == [k |-> "now", v |-> t]
NoTime == [k |-> "none", v |-> 0]

\* datetime.fromisoformat(x.replace('Z', '+00:00')): the exception, or "none"
ParseException(x) ==
    CASE x.k = "null" -> "AttributeError"     \* None.replace
      [] x.k \in {"bad", "empty"} -> "ValueError"
      [] OTHER -> "none"

DisasterAlert(id, type, severity, title, description, region, start_time, end_time, radius, recommendations) ==
    [id |-> id, type |-> type, severity |-> severity, title |-> title,
     description |-> description, affected_regions |-> <<region>>,
     start_time |-> start_time, end_time |-> end_time, radius |-> radius,
     source |-> "tomorrowio", recommendations |-> recommendations]

\* the exception raised while the alert of one event is built, or "none"
EventException(event) ==
    IF event.insight.k = "null" THEN "AttributeError"          \* None.lower
    ELSE IF event.severity.k = "null" THEN "AttributeError"
    ELSE IF event.location.k = "null" THEN "AttributeError"    \* None.get
    ELSE IF ParseException(event.startTime) # "none" THEN ParseException(event.startTime)
    ELSE IF event.endTime.k = "bad" THEN "ValueError"
    ELSE IF "null" \in {event.eventId.k, event.title.k, event.description.k}
    THEN "ValidationError"
    ELSE "none"

\* the alert of one event, datetime.now() reading t
EventAlert(event, t) ==
    LET alert_type == map_event_type(Get(event.insight, Str(<<>>)).s)
        severity == map_severity(Get(event.severity, Str(<<>>)).s)
    IN  DisasterAlert(
            IF event.eventId.k = "missing" THEN [k |-> "evt_", s |-> t] ELSE event.eventId,
            alert_type,
            severity,
            Get(event.title, Str("Weather Alert")).s,
            Get(event.description, Str("No description available")).s,
            Get(event.location, Str("Unknown")).s,
            IF event.startTime.k = "missing" THEN NowTime(t) ELSE DateTime(event.startTime.v),
            IF event.endTime.k = "ts" THEN DateTime(event.endTime.v) ELSE NoTime,
            EVENT_RADIUS,
            generate_recommendations(alert_type, severity))

\* the first try block: the alerts appended before the feed ends or an
\* exception leaves the loop
RECURSIVE EventAlerts(_, _, _)
EventAlerts(events, i, t) ==
    IF i > Len(events) \/ EventException(events[i]) # "none" THEN <<>>
    ELSE <<EventAlert(events[i], t)>> \o EventAlerts(events, i + 1, t)

EventsTry(r, t) ==
    IF r.fetch # "ok" \/ r.data = "null" \/ r.intervals.k = "null" THEN <<>>
    ELSE IF r.data = "missing" \/ r.intervals.k = "missing" THEN <<>>
    ELSE EventAlerts(r.intervals.v, 1, t)

\* interval.get('values', {}).get('floodRiskIndex', 0)
FloodIndexOf(interval) ==
    IF interval.values = "missing" THEN Num(DEFAULT_FLOOD_INDEX)
    ELSE Get(interval.floodRiskIndex, Num(DEFAULT_FLOOD_INDEX))

\* faulty variant: an index of exactly 85 is a warning
FloodSeverity_Inclusive(flood_index) ==
    IF flood_index >= FLOOD_WARNING_INDEX THEN "warning" ELSE "watch"

\* 'warning' if flood_index > 85 else 'watch'
FloodSeverity(flood_index) ==
    IF flood_index > FLOOD_WARNING_INDEX THEN "warning" ELSE "watch"

FloodAlert(interval, t) ==
    LET flood_index == FloodIndexOf(interval).v
    IN  DisasterAlert(
            [k |-> "flood_", s |-> t],
            "flood",
            FloodSeverity(flood_index),
            <<"Flood Risk Alert - Index", flood_index>>,
            <<"High flood risk predicted. Risk index", flood_index>>,
            "Local Area",
            DateTime(interval.startTime.v),
            NoTime,
            FLOOD_RADIUS,
            generate_recommendations("flood", FloodSeverity(flood_index)))

\* the loop over intervals[:5]: the alerts it appends (none when an
\* exception leaves it)
RECURSIVE FloodScan(_, _, _)
FloodScan(intervals, i, t) ==
    IF i > Min(Len(intervals), FLOOD_DAYS) THEN <<>>
    ELSE IF intervals[i].values = "null" THEN <<>>                 \* AttributeError
    ELSE IF FloodIndexOf(intervals[i]).k # "num" THEN <<>>         \* TypeError
    ELSE IF FloodIndexOf(intervals[i]).v > FLOOD_RISK_INDEX
    THEN IF ParseException(Get(intervals[i].startTime, EmptyStr)) # "none"
         THEN <<>>                                                 \* ValueError, AttributeError
         ELSE <<FloodAlert(intervals[i], t)>>                      \* append, break
    ELSE FloodScan(intervals, i + 1, t)

\* faulty variant: the landslide scorer is wired in, its verdict on the
\* default soil and slope is added as an alert
FloodTry_WithLandslide(r, t) ==
    IF r.fetch # "ok" \/ r.data = "null" THEN <<>>
    ELSE IF r.data = "missing" \/ r.timelines # "list" THEN <<>>
    ELSE IF r.intervals.k # "list" THEN <<>>
    ELSE LET severity == calculate_landslide_risk(Hundredths(60), Hundredths(250), 50, Hundredths(20))[1]
         IN  FloodScan(r.intervals.v, 1, t)
             \o <<DisasterAlert([k |-> "landslide_", s |-> t], "landslide", severity,
                                "Landslide Risk Alert", "High landslide risk predicted.",
                                "Local Area", NowTime(t), NoTime, FLOOD_RADIUS,
                                generate_recommendations("landslide", severity))>>

\* the second try block
FloodTry(r, t) ==
    IF r.fetch # "ok" \/ r.data = "null" THEN <<>>
    ELSE IF r.data = "missing" \/ r.timelines # "list" THEN <<>>
    ELSE IF r.intervals.k # "list" THEN <<>>      \* [] when absent; None[:5] raises TypeError
    ELSE FloodScan(r.intervals.v, 1, t)

InitAlerts ==
    /\ provider = "tomorrowio"
    /\ caller = "get_active_alerts"
    /\ response = NoResponse
    /\ daily_data = <<>>
    /\ idx = 0
    /\ current_streak = 0
    /\ max_streak = 0
    /\ streak_start = Null
    /\ streak_end = Null
    /\ forecast_summary = <<>>
    /\ pc = "idle"
    /\ result = NoResult
    /\ events_data \in EventResponses
    /\ flood_data = NoResponse
    /\ alerts = <<>>
    /\ apc = "events"
    /\ call = NoCall
    /\ ret = NoResult

\* try: fetch the events and turn each into an alert; except: print
EventsStep ==
    /\ apc = "events"
    /\ \E t \in Clock : alerts' = EventsTry(events_data, t)
    /\ apc' = "flood"
    /\ UNCHANGED <<events_data, flood_data>>
    /\ UNCHANGED <<riskVars, callVars>>

\* faulty variant: a failed events fetch ends the call before the flood step
\* has added anything
FloodStep_AfterEventsOnly ==
    /\ apc = "flood"
    /\ \E r \in FloodResponses, t \in Clock :
          /\ flood_data' = r
          /\ alerts' = IF events_data.fetch = "ok" THEN alerts \o FloodTry(r, t) ELSE alerts
    /\ apc' = "done"
    /\ UNCHANGED events_data
    /\ UNCHANGED <<riskVars, callVars>>

\* faulty variant: the flood alert is put at the head of the list
FloodStep_AlertFirst ==
    /\ apc = "flood"
    /\ \E r \in FloodResponses, t \in Clock :
          /\ flood_data' = r
          /\ alerts' = FloodTry(r, t) \o alerts
    /\ apc' = "done"
    /\ UNCHANGED events_data
    /\ UNCHANGED <<riskVars, callVars>>

\* try: fetch the flood risk and add at most one alert; except: print; return
FloodStep ==
    /\ apc = "flood"
    /\ \E r \in FloodResponses, t \in Clock :
          /\ flood_data' = r
          /\ alerts' = alerts \o FloodTry(r, t)
    /\ apc' = "done"
    /\ UNCHANGED events_data
    /\ UNCHANGED <<riskVars, callVars>>

NextAlerts ==
    \/ EventsStep
    \/ FloodStep

SpecAlerts == InitAlerts /\ [][NextAlerts]_vars

----------------------------------------------------------------------------
(* alert_service: calls of the pure functions *)

\* the keys of the two mapping tables
EventTypeKeys ==
    { <<"f", "l", "o", "o", "d">>, <<"t", "r", "o", "p", "i", "c", "a", "l">>,
      <<"w", "i", "n", "d">>, <<"w", "i", "n", "t", "e", "r">>,
      <<"t", "e", "m", "p", "e", "r", "a", "t", "u", "r", "e">>,
      <<"t", "h", "u", "n", "d", "e", "r", "s", "t", "o", "r", "m">>,
      <<"o", "t", "h", "e", "r">> }
SeverityKeys ==
    { <<"m", "i", "n", "o", "r">>, <<"m", "o", "d", "e", "r", "a", "t", "e">>,
      <<"s", "e", "v", "e", "r", "e">>, <<"e", "x", "t", "r", "e", "m", "e">> }

\* the key with the letters at the positions of u in upper case
Capitalised(key, u) ==
    [i \in 1..Len(key) |->
        IF i \in u /\ \E n \in 1..Len(LowerCase) : LowerCase[n] = key[i]
        THEN UpperCase[CHOOSE n \in 1..Len(LowerCase) : LowerCase[n] = key[i]]
        ELSE key[i]]

\* every spelling of a key of either table in upper and lower case
KeySpellings ==
    UNION {{Capitalised(key, u) : u \in SUBSET (1..Len(key))} : key \in EventTypeKeys \cup SeverityKeys}

\* strings that are no key: the empty string, a key with a letter more or
\* less, a key with a blank, another word
OtherStrings ==
    { <<>>, <<"v", "o", "l", "c", "a", "n", "o">>, <<"f", "l", "o", "o", "d", "s">>, <<"F", "L", "O", "O">>,
      <<" ", "f", "l", "o", "o", "d">>, <<"F", "l", "o", "o", "d", " ">>, <<"s", "e", "v", "e", "r">>,
      <<"E", "X", "T", "R", "E", "M", "E", "L", "Y">>, <<"l", "a", "n", "d", "s", "l", "i", "d", "e">> }

MappingArguments == KeySpellings \cup OtherStrings

AlertTypes == {"flood", "cyclone", "heavy_rain", "landslide", "wind", "temperature", "drought"}
Severities == {"advisory", "watch", "warning", "critical"}

\* readings on, next to and away from every band edge, in hundredths, with
\* negative ones, soil moisture outside 0..1 and very large ones
PrecipitationRates == {-500, 1000, 2500, 2501, 5000, 5001, 6000, 100000000}
Precipitation3Day == {-500, 1000, 5000, 5001, 10000, 10001, 20000, 20001, 25000, 100000000}
SoilMoistures == {-20, 10, 50, 60, 61, 80, 81, 90, 150}
Slopes == {-500, 500, 2000, 2001, 3000, 3001, 3500, 100000000}

Calls ==
    {[fn |-> "map_event_type", args |-> <<x>>] : x \in MappingArguments}
    \cup {[fn |-> "map_severity", args |-> <<x>>] : x \in MappingArguments}
    \cup {[fn |-> "generate_recommendations", args |-> <<t, v>>] :
              t \in AlertTypes \cup {"earthquake"}, v \in Severities \cup {"unknown"}}
    \cup {[fn |-> "calculate_landslide_risk", args |-> <<p, q, m, d>>] :
              p \in PrecipitationRates, q \in Precipitation3Day, m \in SoilMoistures, d \in Slopes}

Returns(value) == [kind |-> "return", value |-> value]

InitCalls ==
    /\ provider = "tomorrowio"
    /\ caller = "none"
    /\ response = NoResponse
    /\ daily_data = <<>>
    /\ idx = 0
    /\ current_streak = 0
    /\ max_streak = 0
    /\ streak_start = Null
    /\ streak_end = Null
    /\ forecast_summary = <<>>
    /\ pc = "idle"
    /\ result = NoResult
    /\ events_data = NoResponse
    /\ flood_data = NoResponse
    /\ alerts = <<>>
    /\ apc = "idle"
    /\ call \in Calls
    /\ ret = NoResult

MapEventType ==
    /\ call.fn = "map_event_type" /\ ret = NoResult
    /\ ret' = Returns(map_event_type(call.args[1]))
    /\ UNCHANGED <<call, riskVars, alertVars>>

MapSeverity ==
    /\ call.fn = "map_severity" /\ ret = NoResult
    /\ ret' = Returns(map_severity(call.args[1]))
    /\ UNCHANGED <<call, riskVars, alertVars>>

GenerateRecommendations ==
    /\ call.fn = "generate_recommendations" /\ ret = NoResult
    /\ ret' = Returns(generate_recommendations(call.args[1], call.args[2]))
    /\ UNCHANGED <<call, riskVars, alertVars>>

CalculateLandslideRisk ==
    /\ call.fn = "calculate_landslide_risk" /\ ret = NoResult
    /\ ret' = Returns(calculate_landslide_risk(call.args[1], call.args[2], call.args[3], call.args[4]))
    /\ UNCHANGED <<call, riskVars, alertVars>>

NextCalls ==
    \/ MapEventType
    \/ MapSeverity
    \/ GenerateRecommendations
    \/ CalculateLandslideRisk

SpecCalls == InitCalls /\ [][NextCalls]_vars

----------------------------------------------------------------------------
(* What the claims speak of, stated on the input alone *)

\* the reading of an observation: the number sent, or the stated default
\* when the key (or the whole values dict) is absent
Reading(interval, field, default) ==
    IF interval.values = "missing" \/ field.k = "missing" THEN Num(default) ELSE field

\* the day qualifies: humidity > 90 and temperature < 25
Qualifies(interval) ==
    LET h == Reading(interval, interval.humidity, 5000)
        t == Reading(interval, interval.temperature, 3000)
    IN  /\ interval.values # "null"
        /\ h.k = "num" /\ h.v > 9000
        /\ t.k = "num" /\ t.v < 2500

\* the day meets the documented MODERATE condition: humidity > 85 and temperature < 27
MeetsDocumentedModerate(interval) ==
    /\ interval.values = "dict"
    /\ interval.humidity.k = "num" /\ interval.humidity.v > 8500
    /\ interval.temperature.k = "num" /\ interval.temperature.v < 2700

\* temperature or humidity is not in the record
MissingReading(interval) ==
    \/ interval.values = "missing"
    \/ interval.values = "dict" /\ "missing" \in {interval.temperature.k, interval.humidity.k}

\* a field is in the record but is null or not a number
Garbled(interval) ==
    \/ interval.values = "null"
    \/ interval.startTime.k = "null"
    \/ interval.values = "dict" /\ {interval.temperature.k, interval.humidity.k} \cap {"null", "str"} # {}

\* days i..j of data all qualify
IsRun(data, i, j) == i <= j /\ \A k \in i..j : Qualifies(data[k])

Runs(data) == {r \in (1..Len(data)) \X (1..Len(data)) : IsRun(data, r[1], r[2])}

RunLength(r) == r[2] - r[1] + 1

\* length of the longest run of qualifying days anywhere in data
LongestRun(data) ==
    IF Runs(data) = {} THEN 0
    ELSE LET best == CHOOSE r \in Runs(data) : \A q \in Runs(data) : RunLength(q) <= RunLength(r)
         IN  RunLength(best)

\* the last of the runs of maximal length
LastLongestRun(data) ==
    CHOOSE r \in Runs(data) :
        /\ RunLength(r) = LongestRun(data)
        /\ \A q \in Runs(data) : RunLength(q) = RunLength(r) => q[1] <= r[1]

\* the first 7 observations
Window(data) == SubSeq(data, 1, IF Len(data) < 7 THEN Len(data) ELSE 7)

\* a direct call of calculate_blister_blight_risk has returned a verdict
Returned == pc = "done" /\ caller = "direct" /\ result.kind = "return"

----------------------------------------------------------------------------
(* C1 *)

\* C1: the consecutive_risk_days returned equals the length of the longest
\* run of consecutive qualifying days anywhere in the first 7 entries (not a
\* prefix run, not the last run).
C1_LongestRunAnywhere ==
    Returned => result.consecutive_risk_days = LongestRun(Window(daily_data))

\* qualify, not, qualify, qualify, qualify gives 3
C1_Witness ==
    /\ Returned
    /\ Len(daily_data) = 5
    /\ [i \in 1..5 |-> Qualifies(daily_data[i])] = <<TRUE, FALSE, TRUE, TRUE, TRUE>>
    /\ result.consecutive_risk_days = 3

----------------------------------------------------------------------------
(* C2 *)

\* every record of data carries its date
AllDated(data) == \A i \in 1..Len(data) : data[i].startTime.k \in {"ts", "date"}

\* C2: for a HIGH or MODERATE verdict the rationale reports the first and the
\* last day of the run that achieved the maximum streak (the last such run on
\* a tie); a shorter run after the longest one does not change the span.
C2_SpanOfLongestRun ==
    (Returned /\ result.risk_level \in {"HIGH", "MODERATE"} /\ AllDated(Window(daily_data)))
        => LET r == LastLongestRun(Window(daily_data))
           IN  /\ result.details.from = Date(r[1])
               /\ result.details.to = Date(r[2])

----------------------------------------------------------------------------
(* C3 *)

\* C3: the risk level is decided by the longest qualifying streak alone: HIGH
\* iff it is at least 3, MODERATE iff exactly 2, LOW iff 0 or 1; the empty
\* input gives LOW, 0 consecutive risk days and an empty summary.
C3_LevelByStreak ==
    /\ Returned =>
          LET n == LongestRun(Window(daily_data))
          IN  /\ result.risk_level = "HIGH" <=> n >= 3
              /\ result.risk_level = "MODERATE" <=> n = 2
              /\ result.risk_level = "LOW" <=> n \in {0, 1}
    /\ (pc = "done" /\ caller = "direct" /\ daily_data = <<>>) =>
          /\ result.kind = "return"
          /\ result.risk_level = "LOW"
          /\ result.consecutive_risk_days = 0
          /\ result.forecast_summary = <<>>

\* a longest streak of exactly 3 days gives HIGH
C3_Witness ==
    /\ Returned
    /\ LongestRun(Window(daily_data)) = 3
    /\ result.risk_level = "HIGH"

----------------------------------------------------------------------------
(* C4 *)

----------------------------------------------------------------------------
(* C5 *)

\* C5: only the first 7 observations are analysed: the call on s ends as the
\* call on the first 7 entries of s does (same level, count, rationale and
\* summary), so nothing after the 7th entry raises the streak; a sequence
\* shorter than 7 is processed without error.
C5_FirstSevenOnly ==
    (pc = "done" /\ caller = "direct") =>
        /\ result = calculate_blister_blight_risk(provider, Window(daily_data))
        /\ result.kind = "return" => result.consecutive_risk_days <= 7
        /\ (Len(daily_data) < 7 /\ \A i \in 1..Len(daily_data) : ~Garbled(daily_data[i]))
              => result.kind = "return"

\* eight qualifying days give 7
C5_Witness ==
    /\ Returned
    /\ Len(daily_data) = 8
    /\ \A i \in 1..8 : Qualifies(daily_data[i])
    /\ result.consecutive_risk_days = 7

----------------------------------------------------------------------------
(* C6 *)

\* the date of the i-th observation as the summary shows it
ShownDate(interval, i) ==
    IF interval.startTime.k \in {"ts", "date"} THEN Date(i)
    ELSE IF interval.startTime.k = "null" /\ provider = "meteosource" THEN Null
    ELSE Unknown

\* a displayed number is the reading, to within the rounding to one decimal
Shows(shown, reading) ==
    IF reading.k # "num" THEN shown = reading
    ELSE shown.k = "num" /\ shown.v - reading.v \in -5..5

\* C6: the forecast_summary has exactly min(3, n) entries, the i-th entry
\* describes the i-th observation (its date, temperature and humidity) and its
\* is_risk_day flag is that day's qualification; never more than 3 entries.
C6_SummaryOfFirstThree ==
    Returned =>
        LET n == Len(daily_data)
            summary == result.forecast_summary
        IN  /\ Len(summary) = IF n < 3 THEN n ELSE 3
            /\ \A i \in 1..Len(summary) :
                  /\ summary[i].is_risk_day = Qualifies(daily_data[i])
                  /\ summary[i].date = ShownDate(daily_data[i], i)
                  /\ Shows(summary[i].temperature,
                           Reading(daily_data[i], daily_data[i].temperature, 3000))
                  /\ Shows(summary[i].humidity,
                           Reading(daily_data[i], daily_data[i].humidity, 5000))

\* seven qualifying days: 7 consecutive risk days, 3 summary entries
C6_Witness ==
    /\ Returned
    /\ Len(daily_data) = 7
    /\ result.consecutive_risk_days = 7
    /\ Len(result.forecast_summary) = 3

----------------------------------------------------------------------------
(* C7 *)

\* C7: an observation whose temperature or humidity is missing is read as
\* temperature 30 / humidity 50, so it is never a risk day: it resets the
\* running streak to 0 like any non-qualifying day, it raises nothing, and
\* the assessment goes on to a verdict.
C7_MissingReadingsDefault ==
    /\ (pc \in {"scan", "done"} /\ idx >= 1 /\ MissingReading(daily_data[idx])) =>
          LET day == daily_data[idx]
              shown == forecast_summary[idx]
          IN  /\ current_streak = 0
              /\ ~shown.is_risk_day
              /\ (day.values = "missing" \/ day.temperature.k = "missing")
                    => shown.temperature = Num(3000)
              /\ (day.values = "missing" \/ day.humidity.k = "missing")
                    => shown.humidity = Num(5000)
    /\ (pc = "done" /\ caller = "direct" /\ result.kind = "raise" /\ idx < Len(Window(daily_data)))
          => Garbled(daily_data[idx + 1])
    /\ (pc = "done" /\ caller = "direct" /\ \A i \in 1..Len(daily_data) : ~Garbled(daily_data[i]))
          => result.kind = "return"

\* risk day, day without temperature, risk day: the streak restarts, longest run 1
C7_Witness ==
    /\ Returned
    /\ Len(daily_data) = 3
    /\ Qualifies(daily_data[1])
    /\ daily_data[2].values = "dict"
    /\ daily_data[2].temperature.k = "missing"
    /\ daily_data[2].humidity = Num(9500)
    /\ Qualifies(daily_data[3])
    /\ result.consecutive_risk_days = 1
    /\ ~result.forecast_summary[2].is_risk_day

----------------------------------------------------------------------------
(* C8 *)

\* C8: calculate_blister_blight_risk is total: a record whose temperature or
\* humidity is null or not a number, or whose values or date is null, is
\* settled by a default and never makes the call fail.
C8_NeverRaises ==
    (pc = "done" /\ caller = "direct") => result.kind = "return"

----------------------------------------------------------------------------
(* C9 *)

\* the response holds daily records to classify
Usable(p, r) ==
    /\ r.fetch = "ok"
    /\ r.data = "dict"
    /\ p = "tomorrowio" => r.timelines = "list"
    /\ r.intervals.k = "list"
    /\ r.intervals.v # <<>>

\* C9: get_weather_risk never hands an error to its caller: when the fetch
\* fails, when the response has no timelines or no daily intervals, or when
\* the classification fails, it returns LOW with 0 consecutive risk days and
\* an empty summary; otherwise it returns the classifier's verdict for the
\* fetched intervals.
C9_WeatherRiskDegrades ==
    (pc = "done" /\ caller = "get_weather_risk") =>
        LET verdict == calculate_blister_blight_risk(provider, response.intervals.v)
        IN  /\ result.kind = "return"
            /\ IF Usable(provider, response) /\ verdict.kind = "return"
               THEN result = verdict
               ELSE /\ result.risk_level = "LOW"
                    /\ result.consecutive_risk_days = 0
                    /\ result.forecast_summary = <<>>

\* the fetched intervals hold two qualifying days and then one whose
\* temperature is null: the classification fails, the answer is LOW
C9_Witness ==
    /\ pc = "done"
    /\ caller = "get_weather_risk"
    /\ Usable(provider, response)
    /\ Len(response.intervals.v) = 3
    /\ Qualifies(response.intervals.v[1])
    /\ Qualifies(response.intervals.v[2])
    /\ response.intervals.v[3].temperature.k = "null"
    /\ result.kind = "return"
    /\ result.risk_level = "LOW"
    /\ result.forecast_summary = <<>>

----------------------------------------------------------------------------
(* C10 *)

\* get_active_alerts has returned and its flood-risk fetch delivered a series
FloodSeriesFetched ==
    /\ apc = "done"
    /\ flood_data.fetch = "ok" /\ flood_data.data = "dict"
    /\ flood_data.timelines = "list" /\ flood_data.intervals.k = "list"

\* the first 5 entries of the fetched series
FloodWindow ==
    SubSeq(flood_data.intervals.v, 1,
           IF Len(flood_data.intervals.v) < 5 THEN Len(flood_data.intervals.v) ELSE 5)

\* the entry has a floodRiskIndex > 70
HighFloodEntry(interval) ==
    /\ interval.values = "dict"
    /\ interval.floodRiskIndex.k = "num"
    /\ interval.floodRiskIndex.v > 70

HighFloodDays == {i \in 1..Len(FloodWindow) : HighFloodEntry(FloodWindow[i])}

\* the alerts the flood-risk step has put into the list
FloodStepAlerts == SelectSeq(alerts, LAMBDA a : a.id.k = "flood_")

\* every entry of the first 5 has a numeric index and a start timestamp
WellFormedFloodWindow ==
    \A i \in 1..Len(FloodWindow) :
        /\ FloodWindow[i].values = "dict"
        /\ FloodWindow[i].floodRiskIndex.k = "num"
        /\ FloodWindow[i].startTime.k = "ts"

\* the one alert is built from the first entry over 70: its index, its start time
OneAlertFromFirstHighDay ==
    LET first == CHOOSE i \in HighFloodDays : \A j \in HighFloodDays : i <= j
    IN  /\ Len(FloodStepAlerts) = 1
        /\ FloodStepAlerts[1].title = <<"Flood Risk Alert - Index", FloodWindow[first].floodRiskIndex.v>>
        /\ FloodStepAlerts[1].start_time = DateTime(first)
        /\ FloodStepAlerts[1].type = "flood"

\* C10: for every flood-risk series the flood-risk step emits exactly one
\* alert if some entry among the first 5 has floodRiskIndex > 70 and none
\* otherwise; the alert is built from the first such entry; later entries over
\* 70 and entries beyond the 5th produce nothing; exactly 70 does not qualify.
C10_OneAlertPerSeries ==
    FloodSeriesFetched =>
        IF HighFloodDays = {} THEN Len(FloodStepAlerts) = 0 ELSE OneAlertFromFirstHighDay

\* the same on the series whose first 5 entries all carry a numeric index and
\* a start timestamp
C10_OnWellFormedSeries ==
    (FloodSeriesFetched /\ WellFormedFloodWindow) =>
        IF HighFloodDays = {} THEN Len(FloodStepAlerts) = 0 ELSE OneAlertFromFirstHighDay

----------------------------------------------------------------------------
(* C11 *)

\* C11: the severity of the flood-risk alert is 'warning' iff the index of
\* the first entry over 70 is > 85 and 'watch' otherwise (exactly 85 gives
\* watch; a later entry with a higher index does not raise it), and its
\* recommendations are generate_recommendations('flood', that severity).
C11_FloodSeverityByFirstIndex ==
    (FloodSeriesFetched /\ Len(FloodStepAlerts) > 0) =>
        /\ HighFloodDays # {}
        /\ LET first == CHOOSE i \in HighFloodDays : \A j \in HighFloodDays : i <= j
               index == FloodWindow[first].floodRiskIndex.v
               severity == IF index > 85 THEN "warning" ELSE "watch"
           IN  /\ FloodStepAlerts[1].severity = severity
               /\ FloodStepAlerts[1].recommendations = generate_recommendations("flood", severity)

\* the first entry over 70 is at exactly 85 and a 90 follows: a watch, with
\* the preparatory recommendations
C11_Witness ==
    /\ FloodSeriesFetched
    /\ Len(FloodWindow) = 2
    /\ HighFloodEntry(FloodWindow[1]) /\ FloodWindow[1].floodRiskIndex.v = 85
    /\ HighFloodEntry(FloodWindow[2]) /\ FloodWindow[2].floodRiskIndex.v = 90
    /\ Len(FloodStepAlerts) = 1
    /\ FloodStepAlerts[1].severity = "watch"
    /\ FloodStepAlerts[1].recommendations[1] = "Check drainage systems are clear"

----------------------------------------------------------------------------
(* C12 *)

\* get_active_alerts is past its events step and the fetch delivered a feed
EventFeedFetched ==
    /\ apc \in {"flood", "done"}
    /\ events_data.fetch = "ok" /\ events_data.data = "dict"
    /\ events_data.intervals.k = "list"

EventFeed == events_data.intervals.v

\* the alerts the events step has put into the list
EventStepAlerts == SelectSeq(alerts, LAMBDA a : a.id.k # "flood_")

\* every field of the event is a value of its documented kind, or absent
WellFormedEvent(event) ==
    /\ \A f \in {"eventId", "insight", "severity", "title", "description", "location"} :
            event[f].k \in {"str", "missing"}
    /\ event.startTime.k \in {"ts", "missing"}
    /\ event.endTime.k \in {"ts", "missing"}

\* the list holds the alert of the event
YieldsItsAlert(event) ==
    \E j \in 1..Len(EventStepAlerts) : \E t \in Clock : EventStepAlerts[j] = EventAlert(event, t)

\* C12: a malformed event (a startTime or endTime that is no timestamp, a
\* null insight or severity) never aborts the processing of the remaining
\* events: every well-formed event of the feed, before or after the
\* malformed one, has its alert in the returned list.
C12_MalformedEventSkipped ==
    EventFeedFetched =>
        \A i \in 1..Len(EventFeed) : WellFormedEvent(EventFeed[i]) => YieldsItsAlert(EventFeed[i])

\* what the code does: the well-formed events before the first malformed one
\* have their alerts, in feed order, and no event after it has
C12_EventsBeforeFirstMalformed ==
    EventFeedFetched =>
        LET malformed == {i \in 1..Len(EventFeed) : ~WellFormedEvent(EventFeed[i])}
            kept == IF malformed = {} THEN Len(EventFeed)
                    ELSE (CHOOSE i \in malformed : \A j \in malformed : i <= j) - 1
        IN  /\ Len(EventStepAlerts) = kept
            /\ \A i \in 1..kept : \E t \in Clock : EventStepAlerts[i] = EventAlert(EventFeed[i], t)

----------------------------------------------------------------------------
(* C13 *)

\* C13: a failure of the event-feed fetch is caught inside get_active_alerts:
\* it contributes no event alert and the call goes on to the flood-risk step,
\* whose alert (if it yields one) is what the call returns; when both fetches
\* fail the call returns the empty list.
C13_EventFetchFailureCaught ==
    (apc = "done" /\ events_data.fetch # "ok") =>
        /\ Len(EventStepAlerts) = 0
        /\ \E t \in Clock : alerts = FloodTry(flood_data, t)
        /\ flood_data.fetch # "ok" => alerts = <<>>

\* the events fetch failed and the flood-risk series has an entry at 90: the
\* call returns the one flood alert
C13_Witness ==
    /\ apc = "done"
    /\ events_data.fetch = "HTTPError"
    /\ FloodSeriesFetched
    /\ HighFloodDays # {}
    /\ Len(alerts) = 1
    /\ alerts[1].type = "flood"
    /\ alerts[1].severity = "warning"

----------------------------------------------------------------------------
(* C14 *)

\* the call of the pure function has returned
Called(fn) == call.fn = fn /\ ret # NoResult

\* x is the key, each letter in either case
SpelledAs(x, key) ==
    /\ Len(x) = Len(key)
    /\ \A i \in 1..Len(key) :
          \/ x[i] = key[i]
          \/ \E n \in 1..Len(LowerCase) : LowerCase[n] = key[i] /\ UpperCase[n] = x[i]

\* the documented tables: <<key, value>>
DocumentedEventTypes ==
    { <<<<"f", "l", "o", "o", "d">>, "flood">>,
      <<<<"t", "r", "o", "p", "i", "c", "a", "l">>, "cyclone">>,
      <<<<"w", "i", "n", "d">>, "wind">>,
      <<<<"w", "i", "n", "t", "e", "r">>, "temperature">>,
      <<<<"t", "e", "m", "p", "e", "r", "a", "t", "u", "r", "e">>, "temperature">>,
      <<<<"t", "h", "u", "n", "d", "e", "r", "s", "t", "o", "r", "m">>, "heavy_rain">>,
      <<<<"o", "t", "h", "e", "r">>, "heavy_rain">> }
DocumentedSeverities ==
    { <<<<"m", "i", "n", "o", "r">>, "advisory">>,
      <<<<"m", "o", "d", "e", "r", "a", "t", "e">>, "watch">>,
      <<<<"s", "e", "v", "e", "r", "e">>, "warning">>,
      <<<<"e", "x", "t", "r", "e", "m", "e">>, "critical">> }

\* the value of the entry whose key x spells, or the default
Documented(table, x, default) ==
    IF \E e \in table : SpelledAs(x, e[1])
    THEN (CHOOSE e \in table : SpelledAs(x, e[1]))[2]
    ELSE default

\* C14: map_event_type and map_severity are total, case-insensitive
\* lookups: a string that spells a key of the documented table in any mix of
\* upper and lower case gives the key's value, every other string (the empty
\* one included) gives heavy_rain, respectively advisory.
C14_MappingsCaseInsensitive ==
    /\ Called("map_event_type") =>
            ret = Returns(Documented(DocumentedEventTypes, call.args[1], "heavy_rain"))
    /\ Called("map_severity") =>
            ret = Returns(Documented(DocumentedSeverities, call.args[1], "advisory"))

\* map_event_type("TrOpIcAl") has returned cyclone
C14_Witness ==
    /\ Called("map_event_type")
    /\ call.args[1] = <<"T", "r", "O", "p", "I", "c", "A", "l">>
    /\ ret.value = "cyclone"

----------------------------------------------------------------------------
(* C15 *)

\* the other severity of the same bucket, and a severity of the other bucket
SameBucket(severity) ==
    CASE severity = "warning" -> "critical"
      [] severity = "critical" -> "warning"
      [] severity = "advisory" -> "watch"
      [] severity = "watch" -> "advisory"
OtherBucket(severity) == IF severity \in {"warning", "critical"} THEN "watch" ELSE "warning"

\* the types generate_recommendations has an entry for
TableTypes == {"flood", "cyclone", "heavy_rain", "landslide", "drought"}

\* generate_recommendations has returned for one of the four severities
RecommendationsReturned == Called("generate_recommendations") /\ call.args[2] \in Severities

\* C15 (as claimed): generate_recommendations depends on severity only
\* through the bucket: warning and critical give the same list, advisory and
\* watch give the same list, for every type; and for every type the table
\* knows the list of the high bucket differs from the list of the low bucket.
C15_BucketsDifferForTableTypes ==
    RecommendationsReturned =>
        /\ ret.value = generate_recommendations(call.args[1], SameBucket(call.args[2]))
        /\ call.args[1] \in TableTypes =>
                ret.value # generate_recommendations(call.args[1], OtherBucket(call.args[2]))

\* C15 (amended): warning and critical give the same list and advisory and
\* watch give the same list, for every type; the list of the high bucket
\* differs from the list of the low bucket for flood, cyclone and landslide,
\* while heavy_rain and drought (and every type without an entry) have one
\* list for all four severities.
C15_BucketsDifferForThreeTypes ==
    RecommendationsReturned =>
        /\ ret.value = generate_recommendations(call.args[1], SameBucket(call.args[2]))
        /\ IF call.args[1] \in {"flood", "cyclone", "landslide"}
           THEN ret.value # generate_recommendations(call.args[1], OtherBucket(call.args[2]))
           ELSE ret.value = generate_recommendations(call.args[1], OtherBucket(call.args[2]))

\* generate_recommendations('heavy_rain', 'critical') has returned the one
\* heavy_rain list
C15_Witness ==
    /\ RecommendationsReturned
    /\ call.args = <<"heavy_rain", "critical">>
    /\ Len(ret.value) = 5
    /\ ret.value[1] = "Delay all field operations during heavy rain"
    /\ ret.value = generate_recommendations("heavy_rain", "advisory")

----------------------------------------------------------------------------
(* C16 *)

\* the types alert production can give an alert: the values of map_event_type
\* and the flood-risk step's 'flood'
GenerableTypes == {"flood", "cyclone", "wind", "temperature", "heavy_rain"}

GenericAdvice == <<"Monitor weather conditions closely and follow official advisories">>

\* C16: every (type, severity) pair alert production can generate (a type
\* among flood, cyclone, wind, temperature, heavy_rain with any of the four
\* severities) has its own non-empty entry in the recommendation table; the
\* single generic advisory string is returned only for a type alert
\* production cannot generate.
C16_GenerableTypesHaveOwnEntry ==
    RecommendationsReturned =>
        /\ ret.value # <<>>
        /\ call.args[1] \in GenerableTypes => ret.value # GenericAdvice

----------------------------------------------------------------------------
(* C17 *)

\* the points of the highest band the reading is strictly over, 0 when it is
\* over none; a band is <<threshold in hundredths, points>>
BandPoints(reading, bands) ==
    LET met == {b \in bands : reading > b[1]}
    IN  IF met = {} THEN 0
        ELSE (CHOOSE b \in met : \A c \in met : c[1] <= b[1])[2]

DocumentedSeverity(score) ==
    CASE score >= 70 -> "critical"
      [] score >= 50 /\ score < 70 -> "warning"
      [] score >= 30 /\ score < 50 -> "watch"
      [] score < 30 -> "advisory"

\* C17: calculate_landslide_risk returns score = P3 + I + S + L, each signal
\* giving the points of its highest band met (3-day precipitation >200: 40,
\* >100: 25, >50: 10; intensity >50: 30, >25: 15; soil moisture >0.8: 20,
\* >0.6: 10; slope >30: 10, >20: 5; strictly over, else 0), and severity
\* critical from 70, warning from 50, watch from 30, else advisory;
\* (60, 250, 0.9, 35) gives (critical, 100), (10, 10, 0.1, 5) gives (advisory, 0).
C17_LandslideScoreBands ==
    Called("calculate_landslide_risk") =>
        LET P3 == BandPoints(call.args[2], {<<20000, 40>>, <<10000, 25>>, <<5000, 10>>})
            I == BandPoints(call.args[1], {<<5000, 30>>, <<2500, 15>>})
            S == BandPoints(call.args[3], {<<80, 20>>, <<60, 10>>})
            L == BandPoints(call.args[4], {<<3000, 10>>, <<2000, 5>>})
        IN  /\ ret.value = <<DocumentedSeverity(P3 + I + S + L), P3 + I + S + L>>
            /\ call.args = <<6000, 25000, 90, 3500>> => ret.value = <<"critical", 100>>
            /\ call.args = <<1000, 1000, 10, 500>> => ret.value = <<"advisory", 0>>

\* every reading sits exactly on the edge of its top band: nothing is over
\* it, the lower bands give 25 + 15 + 10 + 5 = 55, a warning
C17_Witness ==
    /\ Called("calculate_landslide_risk")
    /\ call.args = <<5000, 20000, 80, 3000>>
    /\ ret.value = <<"warning", 55>>

----------------------------------------------------------------------------
(* C18 *)

\* C18: get_active_alerts is idempotent: the list a call returns for an
\* event feed and a flood-risk series is, in every field of every alert, the
\* list any other call returns for the same feed and series, whenever that
\* call is made (whatever its clock reads).
C18_SameInputSameOutput ==
    apc = "done" =>
        \A t1, t2 \in Clock : alerts = EventsTry(events_data, t1) \o FloodTry(flood_data, t2)

\* what the code keeps: two calls on the same input return lists that agree
\* in everything but the ids and start times taken from the clock
C18_SameButClockFields ==
    apc = "done" =>
        \A t1, t2 \in Clock :
            LET other == EventsTry(events_data, t1) \o FloodTry(flood_data, t2)
                Rest(a) == [f \in DOMAIN a \ {"id", "start_time"} |-> a[f]]
            IN  /\ Len(alerts) = Len(other)
                /\ \A i \in 1..Len(alerts) :
                      /\ Rest(alerts[i]) = Rest(other[i])
                      /\ alerts[i].id.k = other[i].id.k
                      /\ alerts[i].start_time.k = other[i].start_time.k

----------------------------------------------------------------------------
(* C19 *)

----------------------------------------------------------------------------
(* C20 *)

OtherProvider(p) == IF p = "tomorrowio" THEN "meteosource" ELSE "tomorrowio"

\* the same days as the provider p sends them: Tomorrow.io dates a day by a
\* timestamp, Meteosource by a calendar date
SentBy(p, data) ==
    [i \in 1..Len(data) |->
        [data[i] EXCEPT !.startTime =
            IF @.k \in {"ts", "date"}
            THEN IF p = "tomorrowio" THEN Timestamp(@.v) ELSE Date(@.v)
            ELSE @]]

\* a day of temperature and humidity: each a number (or left out, so that
\* the default stands for it), under a date or none
ReadingsDay(interval) ==
    /\ interval.values \in {"dict", "missing"}
    /\ interval.temperature.k \in {"num", "missing"}
    /\ interval.humidity.k \in {"num", "missing"}
    /\ interval.startTime.k \in {"ts", "date", "missing"}

----------------------------------------------------------------------------
(* C21 *)

\* the recorded date is set: it is no longer None
DateSet(d) == d.k # "null"

\* the recorded start is not later in scan order than the recorded end
StartNotAfterEnd ==
    (streak_start.k \in {"ts", "date"} /\ streak_end.k \in {"ts", "date"}) =>
        streak_start.v <= streak_end.v

\* the counters of the scan are in order
StreakCountersInOrder ==
    /\ 0 <= current_streak
    /\ current_streak <= max_streak
    /\ max_streak <= idx
    /\ idx <= 7

\* C21: after every step of the streak scan,
\* 0 <= current_streak <= max_streak <= days scanned so far <= 7, max_streak
\* has not decreased, and whenever max_streak >= 1 both the recorded start
\* and end dates are set, the start not later in scan order than the end (so
\* that the HIGH and MODERATE rationale can be built).
C21_ScanInvariant ==
    [][ /\ StreakCountersInOrder'
        /\ max_streak' >= max_streak
        /\ max_streak' >= 1 => (DateSet(streak_start') /\ DateSet(streak_end') /\ StartNotAfterEnd')
      ]_vars

\* what the code keeps: the counters are in order and max_streak does not
\* decrease on every input; the dates are set once max_streak >= 1 when no
\* scanned day has a null date
C21_OnDaysWithoutNullDate ==
    [][ /\ StreakCountersInOrder'
        /\ max_streak' >= max_streak
        /\ (max_streak' >= 1 /\ \A i \in 1..idx' : daily_data'[i].startTime.k # "null") =>
                (DateSet(streak_start') /\ DateSet(streak_end') /\ StartNotAfterEnd')
      ]_vars

----------------------------------------------------------------------------
(* C22 *)

SeverityRank(severity) ==
    CASE severity = "advisory" -> 0
      [] severity = "watch" -> 1
      [] severity = "warning" -> 2
      [] severity = "critical" -> 3

\* the values the n-th argument is drawn from
ArgumentValues(n) ==
    CASE n = 1 -> PrecipitationRates
      [] n = 2 -> Precipitation3Day
      [] n = 3 -> SoilMoistures
      [] n = 4 -> Slopes

\* C22: for every input (soil moisture outside 0..1, negative values and
\* very large precipitation or slope included) the score of
\* calculate_landslide_risk lies in 0..100 and is a multiple of 5, and
\* raising any single argument, the others held fixed, lowers neither the
\* score nor the rank of the severity (advisory < watch < warning < critical).
C22_ScoreRangeAndMonotone ==
    Called("calculate_landslide_risk") =>
        /\ ret.value[2] \in 0..100
        /\ ret.value[2] % 5 = 0
        /\ \A n \in 1..4 : \A x \in ArgumentValues(n) :
              x > call.args[n] =>
                  LET a == [call.args EXCEPT ![n] = x]
                      raised == calculate_landslide_risk(a[1], a[2], a[3], a[4])
                  IN  /\ raised[2] >= ret.value[2]
                      /\ SeverityRank(raised[1]) >= SeverityRank(ret.value[1])

\* very large precipitation and slope on soil of moisture 1.5: the score is
\* 100, not more
C22_Witness ==
    /\ Called("calculate_landslide_risk")
    /\ call.args = <<100000000, 100000000, 150, 100000000>>
    /\ ret.value = <<"critical", 100>>

----------------------------------------------------------------------------
(* C23 *)

\* the events of the fetched feed (none when the fetch gave no list)
FetchedEvents ==
    IF events_data.fetch = "ok" /\ events_data.data = "dict" /\ events_data.intervals.k = "list"
    THEN events_data.intervals.v
    ELSE <<>>

\* the alerts list[i], list[i+1], ... are alerts of events among
\* FetchedEvents[j], FetchedEvents[j+1], ..., in the order of the feed
RECURSIVE InFeedOrderFrom(_, _, _)
InFeedOrderFrom(list, i, j) ==
    IF i > Len(list) THEN TRUE
    ELSE IF j > Len(FetchedEvents) THEN FALSE
    ELSE \/ /\ \E t \in Clock : list[i] = EventAlert(FetchedEvents[j], t)
            /\ InFeedOrderFrom(list, i + 1, j + 1)
         \/ InFeedOrderFrom(list, i, j + 1)

\* event-derived alerts in feed order, then at most one flood-risk alert
EventsThenFlood ==
    LET events == EventStepAlerts
        flood == FloodStepAlerts
    IN  /\ Len(flood) <= 1
        /\ alerts = events \o flood
        /\ InFeedOrderFrom(events, 1, 1)
        /\ Len(alerts) <= Len(FetchedEvents) + 1

\* C23: the list of get_active_alerts consists of the event-derived alerts
\* in the order of the event feed, followed by at most one flood-risk alert
\* as its last element, so that its length is at most the number of events
\* + 1; when the flood-risk step has run, also when it failed (fetch error,
\* unparsable start time on the qualifying entry), the event-derived alerts
\* of the result are the ones the events step had collected, unchanged.
C23_EventsThenOneFlood ==
    /\ EventsThenFlood
    /\ apc = "done" => \E t \in Clock : EventStepAlerts = EventsTry(events_data, t)

\* two event alerts were collected, then the entry over 70 of the flood-risk
\* series had an unparsable start time: the two event alerts are the result
C23_Witness ==
    /\ FloodSeriesFetched
    /\ HighFloodDays # {}
    /\ FloodWindow[CHOOSE i \in HighFloodDays : \A j \in HighFloodDays : i <= j].startTime.k = "bad"
    /\ Len(alerts) = 2
    /\ alerts = EventStepAlerts
    /\ alerts[1].type = "flood" /\ alerts[2].type = "cyclone"

====
